---- MODULE Spec2Model ----
(***************************************************************************)
(* GStore: the key/value store of the Wukong RDF engine (gstore.hpp).      *)
(*                                                                         *)
(* Every server owns one store: a slot array `vertices` (a cluster-        *)
(* chaining hash table of buckets of ASSOCIATIVITY slots) followed by an   *)
(* entry array `edges`.  The store is built by init, insert_normal and     *)
(* insert_index and then served by the get_edges_* readers.                *)
(*                                                                         *)
(* The table geometry is scaled down (ASSOCIATIVITY, num_slots,            *)
(* num_entries, NUM_ITEMS); the formulas that derive num_buckets and       *)
(* num_buckets_ext are the constructor's.                                  *)
(***************************************************************************)
EXTENDS Integers, Sequences, FiniteSets, TLC

----------------------------------------------------------------------------
(* Configuration and sizes                                                 *)

\* scaled: 8 in the source
ASSOCIATIVITY == 2
MAIN_RATIO == 80
\* global_num_keys_million * 1000 * 1000, scaled
num_slots == 12
num_buckets == ((num_slots \div ASSOCIATIVITY) * MAIN_RATIO) \div 100
num_buckets_ext == (num_slots \div ASSOCIATIVITY) - num_buckets
\* (kvs_size - num_slots * sizeof(vertex_t)) / sizeof(edge_t), scaled
num_entries == 10
global_num_servers == 2

Servers == 0 .. (global_num_servers - 1)
Slots == 0 .. (num_slots - 1)
Entries == 0 .. (num_entries - 1)
Buckets == 0 .. (num_buckets + num_buckets_ext - 1)
\* the threads of the parallel scan
global_num_engines == 2
Threads == 0 .. (global_num_engines - 1)

\* encoding rules of gstore
PREDICATE_ID == 0
TYPE_ID == 1
\* IN = 0 and OUT = 1 (IN is a reserved word here)
DIR_IN == 0
DIR_OUT == 1
\* 2^17 in the source, scaled: ids below it are predicate / type ids
TPID_MAX == 4

\* the value of memory that was never written
Garbage == -1

----------------------------------------------------------------------------
(* Key / value record types (graph_basic_types.hpp)                        *)

ikey_t(v, d, p) == [vid |-> v, dir |-> d, pid |-> p]
EmptyKey == ikey_t(0, 0, 0)
iptr_t(sz, off) == [size |-> sz, off |-> off]
\* vertex_t(): empty key, zero pointer
EmptyVertex == [key |-> EmptyKey, ptr |-> iptr_t(0, 0)]

\* ikey_t::hash(): the packed 64-bit key run through an integer mixer
PackedKey(k) == (k.vid * TPID_MAX + k.pid) * 2 + k.dir
Hash(k) == 3 * PackedKey(k) + (PackedKey(k) \div 8)
\* mymath::hash_mod
hash_mod(v, n) == v % n
is_tpid(id) == id < TPID_MAX

----------------------------------------------------------------------------
(* State                                                                   *)

VARIABLES
    vertices,       \* [server -> [slot -> vertex_t]]: the slot array
    edges,          \* [server -> [entry -> value]]: the entry array
    last_ext,       \* [server -> allocated overflow buckets]
    last_entry,     \* [server -> allocated entries]
    phase,          \* [server -> "new" | "empty" | "loaded" | "serve" | "aborted"]
    abort,          \* [server -> which assertion failed ("none" if none)]
    calls,          \* history: the insert_key calls made one by one, with their outcome
    triples,        \* the data set handed over by the loader
    scan_pos,       \* [server -> [thread -> data slots its part of the index scan has visited]]
    pidx_in_map,    \* [server -> [pid -> list of vids]]: predicate-index (IN)
    pidx_out_map,   \* [server -> [pid -> list of vids]]: predicate-index (OUT)
    tidx_map,       \* [server -> [tid -> list of vids]]: type-index
    rdma_cache,     \* [server -> [item -> vertex_t]]
    global_enable_caching,
    ret,            \* what the last reader call returned
    thr,            \* [thread -> the insert_key call it runs on server 0 and its position]
    bucket_locks,   \* [lock_id -> holder]: the stripe locks, -1 when free
    bucket_ext_lock, \* holder of the overflow allocator's lock, -1 when free
    entry_lock,     \* holder of the entry allocator's lock, -1 when free
    writes,         \* history: the key writes, each with its slot and the stripe lock held
    handed,         \* history: the overflow buckets handed out, in order
    item_locks      \* [server -> [item -> holder]]: the locks of the cache items

storevars == <<vertices, edges, last_ext, last_entry>>
idxvars == <<scan_pos, pidx_in_map, pidx_out_map, tidx_map>>
servevars == <<rdma_cache, global_enable_caching, ret, item_locks>>
lockvars == <<bucket_locks, bucket_ext_lock, entry_lock>>
histvars == <<writes, handed>>
concvars == <<thr, bucket_locks, bucket_ext_lock, entry_lock, writes, handed>>
vars == <<vertices, edges, last_ext, last_entry, phase, abort, calls, triples,
          scan_pos, pidx_in_map, pidx_out_map, tidx_map, rdma_cache,
          global_enable_caching, ret, thr, bucket_locks, bucket_ext_lock,
          entry_lock, writes, handed, item_locks>>

\* the values an uninitialised counter may hold: any value from none to all
\* of the overflow buckets taken (a larger one fails line 147 as the last does)
UninitCounter == 0 .. num_buckets_ext

\* the slot array is raw memory until init()
RawSlot == [key |-> ikey_t(Garbage, Garbage, Garbage), ptr |-> iptr_t(Garbage, Garbage)]

----------------------------------------------------------------------------
(* insert_key and the entry allocator                                      *)
(*                                                                         *)
(* A build state B is the part of one server's store that the build        *)
(* mutates: B.V slot array, B.E entry array, B.le last_ext, B.lent         *)
(* last_entry, B.st "ok" or the failed assertion, B.slot / B.orig the      *)
(* value returned by the last call, B.off the caller's entry cursor.       *)

BState(s) == [V |-> vertices[s], E |-> edges[s], le |-> last_ext[s],
              lent |-> last_entry[s], st |-> "ok", slot |-> 0, orig |-> 0, off |-> 0]

\* vertices[i].key; an index past the slot array reads the bytes that follow
\* it, which is whatever key w the entry region happens to spell
RdKey(V, w, i) == IF i < num_slots THEN V[i].key ELSE w

\* the keys a read past the slot array may return: the empty key, or a key
\* whose vid field points at the first, an overflow or no bucket at all
WildKeys == {EmptyKey} \cup
            {ikey_t(v, DIR_OUT, TYPE_ID) : v \in {0, num_buckets, num_buckets + num_buckets_ext}}

\* a write to vertices[i] with i >= num_slots lands in the entry region
WildWrite(E, i) ==
    [e \in DOMAIN E |->
        IF e \in {2 * (i - num_slots), 2 * (i - num_slots) + 1} THEN Garbage ELSE E[e]]

\* the for loop of insert_key (lines 123-136) over the data slots of one bucket
RECURSIVE insert_scan(_, _, _, _, _)
insert_scan(V, w, key, slot_id, i) ==
    IF ~(i < ASSOCIATIVITY - 1) THEN [kind |-> "full", slot |-> slot_id]
    ELSE IF RdKey(V, w, slot_id) = key THEN [kind |-> "dup", slot |-> slot_id]
    ELSE IF RdKey(V, w, slot_id) = EmptyKey THEN [kind |-> "put", slot |-> slot_id]
    ELSE insert_scan(V, w, key, slot_id + 1, i + 1)

\* lines 139, 140 and 151 of insert_key: the slot inspected as chain slot
\* after the data slots of a bucket were found full
chain_slot(slot_id) == slot_id + 1

\* lines 146-153: allocate and link a new indirect header, then put the key
\* into its first slot
alloc_ext(B, key, c) ==
    IF ~(B.le < num_buckets_ext) THEN [B EXCEPT !.st = "ext", !.slot = c]
    ELSE LET nb == num_buckets + B.le
             V1 == IF c < num_slots THEN [B.V EXCEPT ![c].key.vid = nb] ELSE B.V
             E1 == IF c < num_slots THEN B.E ELSE WildWrite(B.E, c)
         IN  [B EXCEPT !.V = [V1 EXCEPT ![nb * ASSOCIATIVITY].key = key], !.E = E1,
                       !.le = B.le + 1, !.slot = nb * ASSOCIATIVITY]

\* the while loop of insert_key (lines 120-154) entered with slot_id; hops
\* counts the chain pointers followed so far
RECURSIVE insert_loop(_, _, _, _, _)
insert_loop(B, w, key, slot_id, hops) ==
    IF ~(slot_id < num_slots) THEN [B EXCEPT !.st = "slot", !.slot = slot_id]
    ELSE LET r == insert_scan(B.V, w, key, slot_id, 0)
             c == chain_slot(r.slot)
         IN  CASE r.kind = "dup" -> [B EXCEPT !.st = "dup", !.slot = r.slot]
               [] r.kind = "put" ->
                    IF r.slot < num_slots
                    THEN [B EXCEPT !.V[r.slot].key = key, !.slot = r.slot]
                    ELSE [B EXCEPT !.E = WildWrite(B.E, r.slot), !.st = "slot",
                                   !.slot = r.slot]
               [] OTHER ->
                    IF RdKey(B.V, w, c) # EmptyKey
                    THEN IF hops > num_buckets + num_buckets_ext
                         THEN [B EXCEPT !.st = "hang", !.slot = c]
                         ELSE insert_loop(B, w, key,
                                          RdKey(B.V, w, c).vid * ASSOCIATIVITY, hops + 1)
                    ELSE alloc_ext(B, key, c)

\* insert_key(key) on build state B; w is what a read past the slot array sees
insert_key(B, w, key) ==
    insert_loop(B, w, key, (Hash(key) % num_buckets) * ASSOCIATIVITY, 0)

\* an allocator that returns last_entry as it is after the reservation
sync_fetch_and_add_edges(B, n) ==
    IF B.lent + n < num_entries
    THEN [B EXCEPT !.orig = B.lent + n, !.lent = B.lent + n]
    ELSE [B EXCEPT !.orig = B.lent + n, !.lent = B.lent + n, !.st = "entry"]

\* lines 162-170
sync_fetch_and_alloc_edges(B, n) ==
    IF B.lent + n < num_entries
    THEN [B EXCEPT !.orig = B.lent, !.lent = B.lent + n]
    ELSE [B EXCEPT !.orig = B.lent, !.lent = B.lent + n, !.st = "entry"]

\* write a build state back; a failed assertion kills the server process
Commit(s, B, next) ==
    /\ vertices' = [vertices EXCEPT ![s] = B.V]
    /\ edges' = [edges EXCEPT ![s] = B.E]
    /\ last_ext' = [last_ext EXCEPT ![s] = B.le]
    /\ last_entry' = [last_entry EXCEPT ![s] = B.lent]
    /\ phase' = [phase EXCEPT ![s] = IF B.st = "ok" THEN next ELSE "aborted"]
    /\ abort' = [abort EXCEPT ![s] = IF B.st = "ok" THEN "none" ELSE B.st]

----------------------------------------------------------------------------
(* Readers of the local table                                              *)

\* a walk that takes the next pointer from the slot after the bucket, the
\* slot insert_key links its overflow buckets from
next_bucket_after(V, bucket_id) ==
    LET slot_id == bucket_id * ASSOCIATIVITY + ASSOCIATIVITY
    IN  IF slot_id < num_slots /\ V[slot_id].key # EmptyKey
        THEN V[slot_id].key.vid ELSE -1

\* lines 219-226 (194-201 in get_vertex_remote): the next pointer held by
\* the last slot of the bucket, -1 where the walk ends
next_bucket(V, bucket_id) ==
    LET slot_id == bucket_id * ASSOCIATIVITY + ASSOCIATIVITY - 1
    IN  IF V[slot_id].key # EmptyKey THEN V[slot_id].key.vid ELSE -1

\* get_vertex_local: V is the server's slot array
RECURSIVE get_vertex_local(_, _, _, _)
get_vertex_local(V, key, bucket_id, i) ==
    LET slot_id == bucket_id * ASSOCIATIVITY + i
    IN  IF i < ASSOCIATIVITY - 1
        THEN IF V[slot_id].key = key THEN V[slot_id]
             ELSE get_vertex_local(V, key, bucket_id, i + 1)
        ELSE IF next_bucket(V, bucket_id) # -1
             THEN get_vertex_local(V, key, next_bucket(V, bucket_id), 0)
             ELSE EmptyVertex

----------------------------------------------------------------------------
(* Construction, init and single insertions                                *)

\* scaled: 100000 in the source
NUM_ITEMS == 2
\* scaled: 1024 in the source
NUM_LOCKS == 2

\* no reader has returned yet
NoRet == [sid |-> -1, key |-> EmptyKey, size |-> 0, vals |-> <<>>]

\* the index scan has not started and its maps are empty
IndexIdle ==
    /\ scan_pos = [s \in Servers |-> [t \in Threads |-> 0]]
    /\ pidx_in_map = [s \in Servers |-> <<>>]
    /\ pidx_out_map = [s \in Servers |-> <<>>]
    /\ tidx_map = [s \in Servers |-> <<>>]

\* no thread runs a call, every lock is free
NoCall == [pc |-> "idle", key |-> EmptyKey, n |-> 0, orig |-> 0, slot |-> 0, i |-> 0, nb |-> 0,
           v |-> EmptyVertex]
ConcIdle ==
    /\ thr = [t \in Threads |-> NoCall]
    /\ bucket_locks = [l \in 0 .. (NUM_LOCKS - 1) |-> -1]
    /\ bucket_ext_lock = -1
    /\ entry_lock = -1
    /\ writes = {}
    /\ handed = <<>>

\* GStore::GStore: last_entry = 0; last_ext is left uninitialised
InitInsert ==
    /\ vertices = [s \in Servers |-> [i \in Slots |-> RawSlot]]
    /\ edges = [s \in Servers |-> [e \in Entries |-> Garbage]]
    /\ last_ext \in [Servers -> UninitCounter]
    /\ \A s \in Servers : s # 0 => last_ext[s] = 0
    /\ last_entry = [s \in Servers |-> 0]
    /\ phase = [s \in Servers |-> "new"]
    /\ abort = [s \in Servers |-> "none"]
    /\ calls = <<>>
    /\ triples = {}
    /\ IndexIdle
    /\ rdma_cache = [s \in Servers |-> [i \in 0 .. (NUM_ITEMS - 1) |-> EmptyVertex]]
    /\ item_locks = [s \in Servers |-> [i \in 0 .. (NUM_ITEMS - 1) |-> -1]]
    /\ global_enable_caching = FALSE
    /\ ret = NoRet
    /\ ConcIdle

\* init(): reset every key, leave the pointers alone.  The stores of the
\* servers share nothing during build, so the servers are built one after
\* the other
init(s) ==
    /\ phase[s] = "new"
    /\ \A r \in Servers : r < s => phase[r] = "serve"
    /\ vertices' = [vertices EXCEPT ![s] = [i \in Slots |-> [@[i] EXCEPT !.key = EmptyKey]]]
    /\ phase' = [phase EXCEPT ![s] = "empty"]
    /\ UNCHANGED <<edges, last_ext, last_entry, abort, calls, triples, idxvars, servevars>>
    /\ UNCHANGED concvars

\* the entries [off, off + size) a reader is handed
EdgeSlice(E, ptr) ==
    IF ptr.size = Garbage \/ ptr.off = Garbage THEN <<Garbage>>
    ELSE [k \in 1 .. ptr.size |->
            IF ptr.off + k - 1 \in DOMAIN E THEN E[ptr.off + k - 1] ELSE Garbage]

\* get_edges_local on server s: the size and the entries returned
get_edges_local(s, key) ==
    LET v == get_vertex_local(vertices[s], key, Hash(key) % num_buckets, 0)
    IN  IF v.key = EmptyKey THEN [size |-> 0, vals |-> <<>>]
        ELSE [size |-> v.ptr.size, vals |-> EdgeSlice(edges[s], v.ptr)]

\* size of the value stored with every key
KvLen == 1
\* number of insert_key calls of a behaviour
MaxInserts == 5

\* the keys a build of server 0 can insert
InsertKeys ==
    {ikey_t(v, DIR_OUT, p) : v \in {4, 6}, p \in {TYPE_ID, 2}} \cup
    {ikey_t(v, DIR_IN, 2) : v \in {4, 6}} \cup
    {ikey_t(0, DIR_IN, 3), ikey_t(0, DIR_IN, 2), ikey_t(0, DIR_OUT, 2)}

\* one key stored the way insert_index_map stores it (lines 277-283):
\* allocate the value, insert the key, write the slot's pointer record
InsertKeyCall(key, w) ==
    /\ phase[0] = "empty"
    /\ Len(calls) < MaxInserts
    /\ LET B1 == sync_fetch_and_alloc_edges(BState(0), KvLen)
           B2 == IF B1.st = "ok" THEN insert_key(B1, w, key) ELSE B1
           ptr == iptr_t(KvLen, B1.orig)
           B3 == IF B2.st = "ok" THEN [B2 EXCEPT !.V[B2.slot].ptr = ptr] ELSE B2
       IN  /\ Commit(0, B3, "empty")
           /\ calls' = Append(calls, [key |-> key, ptr |-> ptr, slot |-> B3.slot, st |-> B3.st,
                                    ext |-> last_ext[0]])
    /\ UNCHANGED <<triples, idxvars, servevars>>
    /\ UNCHANGED concvars

NextInsert ==
    \/ init(0)
    \/ \E key \in InsertKeys, w \in WildKeys : InsertKeyCall(key, w)

SpecInsert == InitInsert /\ [][NextInsert]_vars

----------------------------------------------------------------------------
(* Threads that insert into the store of server 0 at the same time          *)
(*                                                                         *)
(* Every thread runs calls of insert_key.  A step is one access to shared  *)
(* memory or one lock operation; thr[t] holds the locals of the call: key, *)
(* slot (slot_id), i, and its position pc.                                 *)

\* number of calls of a behaviour
MaxCalls == 4

\* the keys the threads insert: two of primary bucket 2 and two of primary
\* bucket 3, the last one
ConcKeys ==
    {ikey_t(0, DIR_IN, 3), ikey_t(6, DIR_IN, 2), ikey_t(4, DIR_OUT, 2), ikey_t(0, DIR_OUT, 2)}

\* line 117
lock_of(key) == (Hash(key) % num_buckets) % NUM_LOCKS

\* a failed assertion ends the process with all its threads
Die(st) ==
    /\ phase' = [phase EXCEPT ![0] = "aborted"]
    /\ abort' = [abort EXCEPT ![0] = st]

\* an allocator that hands out an index without advancing last_ext
ext_alloc_stuck(le) == [idx |-> num_buckets + le, le |-> le]

\* line 148: the index handed out and the counter it leaves
ext_alloc(le) == [idx |-> num_buckets + le, le |-> le + 1]

\* a thread calls insert_key(key).  The threads being alike, the first call
\* of a behaviour is taken to be thread 0's
Call(t, key) ==
    /\ phase[0] = "empty"
    /\ thr[t].pc = "idle"
    /\ Len(calls) + Cardinality({u \in Threads : thr[u].pc # "idle"}) < MaxCalls
    /\ (t # 0 /\ calls = <<>>) => thr[0].pc # "idle"
    /\ thr' = [thr EXCEPT ![t] = [NoCall EXCEPT !.pc = "lock", !.key = key]]
    /\ UNCHANGED <<storevars, phase, abort, calls, triples, idxvars, servevars, lockvars,
                   histvars>>

\* lines 114-120
LockStripe(t) ==
    /\ phase[0] = "empty"
    /\ thr[t].pc = "lock"
    /\ bucket_locks[lock_of(thr[t].key)] = -1
    /\ bucket_locks' = [bucket_locks EXCEPT ![lock_of(thr[t].key)] = t]
    /\ LET slot_id == (Hash(thr[t].key) % num_buckets) * ASSOCIATIVITY
       IN  thr' = [thr EXCEPT ![t].slot = slot_id, ![t].i = 0,
                              ![t].pc = IF slot_id < num_slots THEN "scan" ELSE "unlock"]
    /\ UNCHANGED <<storevars, phase, abort, calls, triples, idxvars, servevars,
                   bucket_ext_lock, entry_lock, histvars>>

\* one iteration of the for loop, lines 123-136, up to the write of line 132
ScanSlot(t, w) ==
    /\ phase[0] = "empty"
    /\ thr[t].pc = "scan"
    /\ LET k == RdKey(vertices[0], w, thr[t].slot)
       IN  IF k = thr[t].key
           THEN Die("dup") /\ UNCHANGED thr
           ELSE /\ UNCHANGED <<phase, abort>>
                /\ IF k = EmptyKey
                   THEN thr' = [thr EXCEPT ![t].pc = "put"]
                   ELSE thr' = [thr EXCEPT ![t].slot = @ + 1, ![t].i = @ + 1,
                                   ![t].pc = IF thr[t].i + 1 < ASSOCIATIVITY - 1
                                             THEN "scan" ELSE "chain"]
    /\ UNCHANGED <<storevars, calls, triples, idxvars, servevars, lockvars, histvars>>

\* lines 132-133
PutKey(t) ==
    /\ phase[0] = "empty"
    /\ thr[t].pc = "put"
    /\ IF thr[t].slot < num_slots
       THEN /\ vertices' = [vertices EXCEPT ![0][thr[t].slot].key = thr[t].key]
            /\ UNCHANGED edges
       ELSE /\ edges' = [edges EXCEPT ![0] = WildWrite(@, thr[t].slot)]
            /\ UNCHANGED vertices
    /\ writes' = writes \cup {[slot |-> thr[t].slot, lock |-> lock_of(thr[t].key)]}
    /\ thr' = [thr EXCEPT ![t].pc = "unlock"]
    /\ UNCHANGED <<last_ext, last_entry, phase, abort, calls, triples, idxvars, servevars,
                   lockvars, handed>>

\* line 139
ChainSlot(t, w) ==
    /\ phase[0] = "empty"
    /\ thr[t].pc = "chain"
    /\ LET c == chain_slot(thr[t].slot)
       IN  thr' = [thr EXCEPT ![t].slot = c,
                              ![t].pc = IF RdKey(vertices[0], w, c) # EmptyKey
                                        THEN "follow" ELSE "ext_lock"]
    /\ UNCHANGED <<storevars, phase, abort, calls, triples, idxvars, servevars, lockvars,
                   histvars>>

\* lines 140-141 and the loop test of line 120
FollowChain(t, w) ==
    /\ phase[0] = "empty"
    /\ thr[t].pc = "follow"
    /\ LET slot_id == RdKey(vertices[0], w, thr[t].slot).vid * ASSOCIATIVITY
       IN  thr' = [thr EXCEPT ![t].slot = slot_id, ![t].i = 0,
                              ![t].pc = IF slot_id < num_slots THEN "scan" ELSE "unlock"]
    /\ UNCHANGED <<storevars, phase, abort, calls, triples, idxvars, servevars, lockvars,
                   histvars>>

\* line 146
LockExt(t) ==
    /\ phase[0] = "empty"
    /\ thr[t].pc = "ext_lock"
    /\ bucket_ext_lock = -1
    /\ bucket_ext_lock' = t
    /\ thr' = [thr EXCEPT ![t].pc = "ext"]
    /\ UNCHANGED <<storevars, phase, abort, calls, triples, idxvars, servevars,
                   bucket_locks, entry_lock, histvars>>

\* lines 147-149
AllocExt(t) ==
    /\ phase[0] = "empty"
    /\ thr[t].pc = "ext"
    /\ IF ~(last_ext[0] < num_buckets_ext)
       THEN /\ Die("ext")
            /\ UNCHANGED <<vertices, edges, last_ext, bucket_ext_lock, thr, writes, handed>>
       ELSE LET a == ext_alloc(last_ext[0])
            IN  /\ IF thr[t].slot < num_slots
                   THEN /\ vertices' = [vertices EXCEPT ![0][thr[t].slot].key.vid = a.idx]
                        /\ UNCHANGED edges
                   ELSE /\ edges' = [edges EXCEPT ![0] = WildWrite(@, thr[t].slot)]
                        /\ UNCHANGED vertices
                /\ last_ext' = [last_ext EXCEPT ![0] = a.le]
                /\ bucket_ext_lock' = -1
                /\ thr' = [thr EXCEPT ![t].pc = "move", ![t].nb = a.idx]
                /\ writes' = writes \cup
                                {[slot |-> thr[t].slot, lock |-> lock_of(thr[t].key)]}
                /\ handed' = Append(handed, [idx |-> a.idx, slot |-> thr[t].slot])
                /\ UNCHANGED <<phase, abort>>
    /\ UNCHANGED <<last_entry, calls, triples, idxvars, servevars, bucket_locks, entry_lock>>

\* line 151
MoveToExt(t) ==
    /\ phase[0] = "empty"
    /\ thr[t].pc = "move"
    /\ thr' = [thr EXCEPT ![t].pc = "fill",
                          ![t].slot = (IF thr[t].slot < num_slots
                                       THEN vertices[0][thr[t].slot].key.vid
                                       ELSE thr[t].nb) * ASSOCIATIVITY]
    /\ UNCHANGED <<storevars, phase, abort, calls, triples, idxvars, servevars, lockvars,
                   histvars>>

\* lines 152-153
FillExt(t) ==
    /\ phase[0] = "empty"
    /\ thr[t].pc = "fill"
    /\ IF thr[t].slot < num_slots
       THEN /\ vertices' = [vertices EXCEPT ![0][thr[t].slot].key = thr[t].key]
            /\ UNCHANGED edges
       ELSE /\ edges' = [edges EXCEPT ![0] = WildWrite(@, thr[t].slot)]
            /\ UNCHANGED vertices
    /\ writes' = writes \cup {[slot |-> thr[t].slot, lock |-> lock_of(thr[t].key)]}
    /\ thr' = [thr EXCEPT ![t].pc = "unlock"]
    /\ UNCHANGED <<last_ext, last_entry, phase, abort, calls, triples, idxvars, servevars,
                   lockvars, handed>>

\* line 156
UnlockStripe(t) ==
    /\ phase[0] = "empty"
    /\ thr[t].pc = "unlock"
    /\ bucket_locks' = [bucket_locks EXCEPT ![lock_of(thr[t].key)] = -1]
    /\ thr' = [thr EXCEPT ![t].pc = "check"]
    /\ UNCHANGED <<storevars, phase, abort, calls, triples, idxvars, servevars,
                   bucket_ext_lock, entry_lock, histvars>>

\* lines 157-159
CheckSlot(t) ==
    /\ phase[0] = "empty"
    /\ thr[t].pc = "check"
    /\ IF ~(thr[t].slot < num_slots) THEN Die("slot") /\ UNCHANGED <<calls, thr>>
       ELSE IF vertices[0][thr[t].slot].key # thr[t].key
       THEN Die("key") /\ UNCHANGED <<calls, thr>>
       ELSE /\ calls' = Append(calls, [key |-> thr[t].key,
                                       ptr |-> vertices[0][thr[t].slot].ptr,
                                       slot |-> thr[t].slot, st |-> "ok",
                                       ext |-> last_ext[0]])
            /\ thr' = [thr EXCEPT ![t] = NoCall]
            /\ UNCHANGED <<phase, abort>>
    /\ UNCHANGED <<storevars, triples, idxvars, servevars, lockvars, histvars>>

NextConc ==
    \/ init(0)
    \/ \E t \in Threads, key \in ConcKeys : Call(t, key)
    \/ \E t \in Threads : LockStripe(t)
    \/ \E t \in Threads, w \in WildKeys : ScanSlot(t, w)
    \/ \E t \in Threads : PutKey(t)
    \/ \E t \in Threads, w \in WildKeys : ChainSlot(t, w)
    \/ \E t \in Threads, w \in WildKeys : FollowChain(t, w)
    \/ \E t \in Threads : LockExt(t)
    \/ \E t \in Threads : AllocExt(t)
    \/ \E t \in Threads : MoveToExt(t)
    \/ \E t \in Threads : FillExt(t)
    \/ \E t \in Threads : UnlockStripe(t)
    \/ \E t \in Threads : CheckSlot(t)

SpecConc == InitInsert /\ [][NextConc]_vars

\* the steps of thread t once it is inside insert_key
Step(t) ==
    \/ LockStripe(t)
    \/ \E w \in WildKeys : ScanSlot(t, w)
    \/ PutKey(t)
    \/ \E w \in WildKeys : ChainSlot(t, w)
    \/ \E w \in WildKeys : FollowChain(t, w)
    \/ LockExt(t)
    \/ AllocExt(t)
    \/ MoveToExt(t)
    \/ FillExt(t)
    \/ UnlockStripe(t)
    \/ CheckSlot(t)

\* the concurrent build under a scheduler that lets every thread run: a
\* thread that can take a step of insert_key takes one
SpecConcFair == SpecConc /\ \A t \in Threads : WF_vars(Step(t))

----------------------------------------------------------------------------
(* Threads that reserve entries at the same time                           *)

\* the sizes the threads ask for
AllocSizes == {KvLen, num_entries \div 2}

\* a thread calls sync_fetch_and_alloc_edges(n)
AllocCall(t, n) ==
    /\ phase[0] = "empty"
    /\ thr[t].pc = "idle"
    /\ Len(calls) + Cardinality({u \in Threads : thr[u].pc # "idle"}) < MaxCalls
    /\ thr' = [thr EXCEPT ![t] = [NoCall EXCEPT !.pc = "entry_lock", !.n = n]]
    /\ UNCHANGED <<storevars, phase, abort, calls, triples, idxvars, servevars, lockvars,
                   histvars>>

\* line 164
LockEntry(t) ==
    /\ phase[0] = "empty"
    /\ thr[t].pc = "entry_lock"
    /\ entry_lock = -1
    /\ entry_lock' = t
    /\ thr' = [thr EXCEPT ![t].pc = "fetch"]
    /\ UNCHANGED <<storevars, phase, abort, calls, triples, idxvars, servevars,
                   bucket_locks, bucket_ext_lock, histvars>>

\* line 165
FetchEntry(t) ==
    /\ phase[0] = "empty"
    /\ thr[t].pc = "fetch"
    /\ thr' = [thr EXCEPT ![t].pc = "add",
                          ![t].orig = sync_fetch_and_alloc_edges(BState(0), thr[t].n).orig]
    /\ UNCHANGED <<storevars, phase, abort, calls, triples, idxvars, servevars, lockvars,
                   histvars>>

\* lines 166-167
AddEntry(t) ==
    /\ phase[0] = "empty"
    /\ thr[t].pc = "add"
    /\ LET B == sync_fetch_and_alloc_edges(BState(0), thr[t].n)
       IN  /\ last_entry' = [last_entry EXCEPT ![0] = B.lent]
           /\ IF B.st = "ok"
              THEN /\ thr' = [thr EXCEPT ![t].pc = "entry_unlock"]
                   /\ UNCHANGED <<phase, abort>>
              ELSE /\ Die(B.st)
                   /\ UNCHANGED thr
    /\ UNCHANGED <<vertices, edges, last_ext, calls, triples, idxvars, servevars, lockvars,
                   histvars>>

\* lines 168-169
UnlockEntry(t) ==
    /\ phase[0] = "empty"
    /\ thr[t].pc = "entry_unlock"
    /\ entry_lock' = -1
    /\ calls' = Append(calls, [key |-> EmptyKey, ptr |-> iptr_t(thr[t].n, thr[t].orig),
                               slot |-> 0, st |-> "ok", ext |-> last_ext[0]])
    /\ thr' = [thr EXCEPT ![t] = NoCall]
    /\ UNCHANGED <<storevars, phase, abort, triples, idxvars, servevars, bucket_locks,
                   bucket_ext_lock, histvars>>

NextAlloc ==
    \/ init(0)
    \/ \E t \in Threads, n \in AllocSizes : AllocCall(t, n)
    \/ \E t \in Threads : LockEntry(t)
    \/ \E t \in Threads : FetchEntry(t)
    \/ \E t \in Threads : AddEntry(t)
    \/ \E t \in Threads : UnlockEntry(t)

SpecAlloc == InitInsert /\ [][NextAlloc]_vars

----------------------------------------------------------------------------
(* The loader's output: the triples of a server, sorted                    *)

\* vertex ids, and the predicate and type ids of the data set
Vids == {4, 5, 6}
Pids == {2}
Tids == {3}
MaxTriples == 2

triple_t(s, p, o) == [s |-> s, p |-> p, o |-> o]
\* the data set's edges join vertex 4 and each of the others, both ways
EdgePairs == {<<4, 5>>, <<4, 6>>, <<5, 4>>, <<6, 4>>}
TripleUniverse ==
    {triple_t(e[1], p, e[2]) : e \in EdgePairs, p \in Pids} \cup
    {triple_t(s, TYPE_ID, t) : s \in Vids, t \in Tids}

\* lexicographic order on id triples
Lex3(a1, a2, a3, b1, b2, b3) ==
    \/ a1 < b1
    \/ a1 = b1 /\ a2 < b2
    \/ a1 = b1 /\ a2 = b2 /\ a3 < b3

RECURSIVE SortSPO(_)
SortSPO(S) ==
    IF S = {} THEN <<>>
    ELSE LET m == CHOOSE t \in S :
                    \A u \in S \ {t} : Lex3(t.s, t.p, t.o, u.s, u.p, u.o)
         IN  <<m>> \o SortSPO(S \ {m})

RECURSIVE SortOPS(_)
SortOPS(S) ==
    IF S = {} THEN <<>>
    ELSE LET m == CHOOSE t \in S :
                    \A u \in S \ {t} : Lex3(t.o, t.p, t.s, u.o, u.p, u.s)
         IN  <<m>> \o SortOPS(S \ {m})

\* triple_spo and triple_ops of server s
spo_of(s) == SortSPO({t \in triples : hash_mod(t.s, global_num_servers) = s})
ops_of(s) == SortOPS({t \in triples : hash_mod(t.o, global_num_servers) = s})

----------------------------------------------------------------------------
(* insert_normal                                                           *)

\* an insert_normal that skips no triple of ops
count_type_triples_none(ops, n) == n

\* lines 367-369: the length of the prefix of ops whose object is a type id
RECURSIVE count_type_triples(_, _)
count_type_triples(ops, n) ==
    IF n < Len(ops) /\ is_tpid(ops[n + 1].o) THEN count_type_triples(ops, n + 1) ELSE n

\* lines 381-384 / 404-407: the end of the run that starts at s (seq is
\* 1-based here, e is the first index past the run)
RECURSIVE run_end(_, _, _, _)
run_end(seq, d, s, e) ==
    IF /\ e <= Len(seq)
       /\ (IF d = DIR_OUT THEN seq[s].s = seq[e].s ELSE seq[s].o = seq[e].o)
       /\ seq[s].p = seq[e].p
    THEN run_end(seq, d, s, e + 1)
    ELSE e

\* edges[off++].val = ... for the run [s, e)
write_run(E, seq, d, s, e, off) ==
    [x \in DOMAIN E |->
        IF off <= x /\ x < off + (e - s)
        THEN (IF d = DIR_OUT THEN seq[s + (x - off)].o ELSE seq[s + (x - off)].s)
        ELSE E[x]]

\* the while loops of lines 379-399 (d = OUT over spo) and 402-422 (d = IN
\* over ops), from index s on
RECURSIVE normal_pass(_, _, _, _, _)
normal_pass(B, w, seq, d, s) ==
    IF B.st # "ok" \/ s > Len(seq) THEN B
    ELSE LET e == run_end(seq, d, s, s + 1)
             key == IF d = DIR_OUT THEN ikey_t(seq[s].s, DIR_OUT, seq[s].p)
                                   ELSE ikey_t(seq[s].o, DIR_IN, seq[s].p)
             B1 == insert_key(B, w, key)
         IN  IF B1.st # "ok" THEN B1
             ELSE normal_pass(
                    [B1 EXCEPT !.V[B1.slot].ptr = iptr_t(e - s, B.off),
                               !.E = write_run(B1.E, seq, d, s, e, B.off),
                               !.off = B.off + (e - s)],
                    w, seq, d, e)

insert_normal_on(B, w, spo, ops) ==
    LET type_triples == count_type_triples(ops, 0)
        B1 == sync_fetch_and_alloc_edges(B, Len(spo) + Len(ops) - type_triples)
    IN  IF B1.st # "ok" THEN B1
        ELSE normal_pass(normal_pass([B1 EXCEPT !.off = B1.orig], w, spo, DIR_OUT, 1),
                         w, ops, DIR_IN, type_triples + 1)

insert_normal(s, w) ==
    /\ phase[s] = "empty"
    /\ Commit(s, insert_normal_on(BState(s), w, spo_of(s), ops_of(s)), "loaded")
    /\ UNCHANGED <<calls, triples, idxvars, servevars>>
    /\ UNCHANGED concvars

\* edges[off++].val = x for the values x of a list
write_list(E, list, off) ==
    [x \in DOMAIN E |-> IF off <= x /\ x < off + Len(list) THEN list[x - off + 1] ELSE E[x]]

----------------------------------------------------------------------------
(* insert_normal compiled with VERSATILE                                   *)

\* the subject (d = OUT) or object (d = IN) of the i-th triple of seq
vertex_of(seq, d, i) == IF d = DIR_OUT THEN seq[i].s ELSE seq[i].o

\* accum_predicate (lines 386, 409): one per run of the loop from s on
RECURSIVE count_runs(_, _, _)
count_runs(seq, d, s) ==
    IF s > Len(seq) THEN 0 ELSE 1 + count_runs(seq, d, run_end(seq, d, s, s + 1))

\* lines 450-452 / 476-478: skip the triples with the vertex of s and the
\* predicate of m
RECURSIVE skip_same(_, _, _, _, _)
skip_same(seq, d, s, m, e) ==
    IF /\ e <= Len(seq)
       /\ vertex_of(seq, d, s) = vertex_of(seq, d, e)
       /\ seq[m].p = seq[e].p
    THEN skip_same(seq, d, s, m, e + 1)
    ELSE e

\* the do-while of lines 444-453 / 470-479 from e on: the predicates
\* written for the vertex of s and the index the loop stops at
RECURSIVE predicate_run(_, _, _, _, _)
predicate_run(seq, d, s, e, acc) ==
    LET e1 == skip_same(seq, d, s, e, e + 1)
        acc1 == Append(acc, seq[e].p)
    IN  IF e1 <= Len(seq) /\ vertex_of(seq, d, s) = vertex_of(seq, d, e1)
        THEN predicate_run(seq, d, s, e1, acc1)
        ELSE [e |-> e1, preds |-> acc1]

\* the while loops of lines 437-460 (d = OUT over spo) and 463-486 (d = IN
\* over ops), from index s on
RECURSIVE versatile_pass(_, _, _, _, _)
versatile_pass(B, w, seq, d, s) ==
    IF B.st # "ok" \/ s > Len(seq) THEN B
    ELSE LET key == ikey_t(vertex_of(seq, d, s), d, PREDICATE_ID)
             B1 == insert_key(B, w, key)
             r == predicate_run(seq, d, s, s, <<>>)
         IN  IF B1.st # "ok" THEN B1
             ELSE versatile_pass(
                    [B1 EXCEPT !.V[B1.slot].ptr = iptr_t(Len(r.preds), B.off),
                               !.E = write_list(B1.E, r.preds, B.off),
                               !.off = B.off + Len(r.preds)],
                    w, seq, d, r.e)

\* insert_normal with lines 424-487 compiled in
insert_normal_VERSATILE_on(B, w, spo, ops) ==
    LET type_triples == count_type_triples(ops, 0)
        accum_predicate == count_runs(spo, DIR_OUT, 1) + count_runs(ops, DIR_IN, type_triples + 1)
        B1 == insert_normal_on(B, w, spo, ops)
        B2 == IF B1.st = "ok" THEN sync_fetch_and_alloc_edges(B1, accum_predicate) ELSE B1
    IN  IF B2.st # "ok" THEN B2
        ELSE versatile_pass(versatile_pass([B2 EXCEPT !.off = B2.orig], w, spo, DIR_OUT, 1),
                            w, ops, DIR_IN, type_triples + 1)

insert_normal_VERSATILE(s, w) ==
    /\ phase[s] = "empty"
    /\ Commit(s, insert_normal_VERSATILE_on(BState(s), w, spo_of(s), ops_of(s)), "loaded")
    /\ UNCHANGED <<calls, triples, idxvars, servevars>>
    /\ UNCHANGED concvars

----------------------------------------------------------------------------
(* insert_index                                                            *)

\* tbb_hash_map: insert(a, id); a->second.push_back(vid)
map_push(map, id, vid) ==
    IF id \in DOMAIN map
    THEN [map EXCEPT ![id] = Append(@, vid)]
    ELSE [x \in DOMAIN map \cup {id} |-> IF x = id THEN <<vid>> ELSE map[x]]

\* lines 531-535: one push per type of the adjacency [off, off + sz)
RECURSIVE push_types(_, _, _, _, _, _)
push_types(map, E, off, sz, e, vid) ==
    IF ~(e < sz) THEN map
    ELSE push_types(map_push(map, IF off + e \in DOMAIN E THEN E[off + e] ELSE Garbage, vid),
                    E, off, sz, e + 1, vid)

\* the parallel for of line 494 under the static schedule: thread t takes
\* the buckets [t * ScanChunk, (t + 1) * ScanChunk)
ScanChunk == (num_buckets + num_buckets_ext + global_num_engines - 1) \div global_num_engines
ScanLen(t) ==
    LET lo == t * ScanChunk
        hi == IF lo + ScanChunk < num_buckets + num_buckets_ext
              THEN lo + ScanChunk ELSE num_buckets + num_buckets_ext
    IN  IF hi > lo THEN (hi - lo) * (ASSOCIATIVITY - 1) ELSE 0

\* the body of the inner loop of the scan (lines 499-541) for the vertex v
\* of one slot; M holds the three maps and st, "type" once line 516 failed
scan_vertex(M, v, E) ==
    LET vid == v.key.vid
        pid == v.key.pid
        dir == v.key.dir
    IN  IF v.key = EmptyKey \/ pid = PREDICATE_ID THEN M
        ELSE IF dir = DIR_IN /\ pid = TYPE_ID THEN [M EXCEPT !.st = "type"]
        ELSE IF dir = DIR_IN THEN [M EXCEPT !.pout = map_push(@, pid, vid)]
        ELSE IF pid = TYPE_ID
        THEN [M EXCEPT !.tidx = push_types(@, E, v.ptr.off, v.ptr.size, 0, vid)]
        ELSE [M EXCEPT !.pin = map_push(@, pid, vid)]

\* one iteration of the inner loop of the scan (lines 497-542) by thread t
scan_slot(s, t) ==
    /\ phase[s] = "loaded"
    /\ scan_pos[s][t] < ScanLen(t)
    /\ LET bucket_id == t * ScanChunk + (scan_pos[s][t] \div (ASSOCIATIVITY - 1))
           slot_id == bucket_id * ASSOCIATIVITY + (scan_pos[s][t] % (ASSOCIATIVITY - 1))
           M == scan_vertex([pin |-> pidx_in_map[s], pout |-> pidx_out_map[s],
                             tidx |-> tidx_map[s], st |-> "ok"],
                            vertices[s][slot_id], edges[s])
       IN  /\ scan_pos' = [scan_pos EXCEPT ![s][t] = @ + 1]
           /\ pidx_in_map' = [pidx_in_map EXCEPT ![s] = M.pin]
           /\ pidx_out_map' = [pidx_out_map EXCEPT ![s] = M.pout]
           /\ tidx_map' = [tidx_map EXCEPT ![s] = M.tidx]
           /\ phase' = [phase EXCEPT ![s] = IF M.st = "ok" THEN @ ELSE "aborted"]
           /\ abort' = [abort EXCEPT ![s] = IF M.st = "ok" THEN @ ELSE M.st]
    /\ UNCHANGED <<storevars, calls, triples, servevars>>
    /\ UNCHANGED concvars

\* the orders in which a map's entries may be iterated
Orders(map) ==
    {o \in [1 .. Cardinality(DOMAIN map) -> DOMAIN map] :
        \A i, j \in DOMAIN o : i # j => o[i] # o[j]}

\* insert_index_map (lines 274-288), the entries taken in order o from i on
RECURSIVE insert_index_map(_, _, _, _, _, _)
insert_index_map(B, w, map, o, d, i) ==
    IF B.st # "ok" \/ i > Len(o) THEN B
    ELSE LET id == o[i]
             sz == Len(map[id])
             B1 == sync_fetch_and_alloc_edges(B, sz)
             B2 == IF B1.st = "ok" THEN insert_key(B1, w, ikey_t(0, d, id)) ELSE B1
         IN  IF B2.st # "ok" THEN B2
             ELSE insert_index_map(
                    [B2 EXCEPT !.V[B2.slot].ptr = iptr_t(sz, B1.orig),
                               !.E = write_list(B2.E, map[id], B1.orig)],
                    w, map, o, d, i + 1)

\* the three maps written out with the predicate-OUT index under IN as well
insert_index_maps_all_in(B, w, M, ot, oi, oo) ==
    LET B1 == insert_index_map(B, w, M.tidx, ot, DIR_IN, 1)
        B2 == insert_index_map(B1, w, M.pin, oi, DIR_IN, 1)
    IN  insert_index_map(B2, w, M.pout, oo, DIR_IN, 1)

\* lines 549-551: the three maps written out, each in its iteration order
insert_index_maps(B, w, M, ot, oi, oo) ==
    LET B1 == insert_index_map(B, w, M.tidx, ot, DIR_IN, 1)
        B2 == insert_index_map(B1, w, M.pin, oi, DIR_IN, 1)
    IN  insert_index_map(B2, w, M.pout, oo, DIR_OUT, 1)

\* the sequential tail of insert_index (lines 548-555), once the scan is over
insert_index(s, w) ==
    /\ phase[s] = "loaded"
    /\ \A t \in Threads : scan_pos[s][t] = ScanLen(t)
    /\ \E ot \in Orders(tidx_map[s]), oi \in Orders(pidx_in_map[s]),
          oo \in Orders(pidx_out_map[s]) :
          Commit(s, insert_index_maps(BState(s), w,
                                      [pin |-> pidx_in_map[s], pout |-> pidx_out_map[s],
                                       tidx |-> tidx_map[s], st |-> "ok"],
                                      ot, oi, oo), "serve")
    /\ pidx_in_map' = [pidx_in_map EXCEPT ![s] = <<>>]
    /\ pidx_out_map' = [pidx_out_map EXCEPT ![s] = <<>>]
    /\ tidx_map' = [tidx_map EXCEPT ![s] = <<>>]
    /\ UNCHANGED <<scan_pos, calls, triples, servevars>>
    /\ UNCHANGED concvars

----------------------------------------------------------------------------
(* Readers                                                                 *)

\* a lookup that takes the item of the key's index for a hit without
\* comparing the keys
cache_lookup_any(r, key) ==
    LET idx == Hash(key) % NUM_ITEMS
    IN  IF global_enable_caching /\ rdma_cache[r][idx].key # EmptyKey
        THEN [found |-> TRUE, v |-> rdma_cache[r][idx]]
        ELSE [found |-> FALSE, v |-> EmptyVertex]

\* RDMA_Cache::lookup on server r: the item that is a hit for key, if any
cache_lookup(r, key) ==
    LET idx == Hash(key) % NUM_ITEMS
    IN  IF global_enable_caching /\ rdma_cache[r][idx].key = key
        THEN [found |-> TRUE, v |-> rdma_cache[r][idx]]
        ELSE [found |-> FALSE, v |-> EmptyVertex]

\* an insert that does not look at the caching flag
cache_insert_always(r, v) ==
    [rdma_cache EXCEPT ![r][Hash(v.key) % NUM_ITEMS] = v]

\* RDMA_Cache::insert on server r
cache_insert(r, v) ==
    IF global_enable_caching
    THEN [rdma_cache EXCEPT ![r][Hash(v.key) % NUM_ITEMS] = v]
    ELSE rdma_cache

\* the loop of get_vertex_remote (lines 181-204): every bucket is fetched
\* from the slot array of server dst_sid by one RdmaRead
RECURSIVE remote_walk(_, _, _, _)
remote_walk(dst_sid, key, bucket_id, i) ==
    LET ptr == [j \in 0 .. (ASSOCIATIVITY - 1) |->
                    vertices[dst_sid][bucket_id * ASSOCIATIVITY + j]]
    IN  IF i < ASSOCIATIVITY - 1
        THEN IF ptr[i].key = key THEN [found |-> TRUE, v |-> ptr[i]]
             ELSE remote_walk(dst_sid, key, bucket_id, i + 1)
        ELSE IF next_bucket(vertices[dst_sid], bucket_id) # -1
             THEN remote_walk(dst_sid, key, next_bucket(vertices[dst_sid], bucket_id), 0)
             ELSE [found |-> FALSE, v |-> EmptyVertex]

\* get_vertex_remote on server r: the vertex returned and the cache it leaves
get_vertex_remote(r, key) ==
    LET dst_sid == hash_mod(key.vid, global_num_servers)
        hit == cache_lookup(r, key)
        rd == remote_walk(dst_sid, key, Hash(key) % num_buckets, 0)
    IN  IF hit.found THEN [v |-> hit.v, cache |-> rdma_cache]
        ELSE IF rd.found THEN [v |-> rd.v, cache |-> cache_insert(r, rd.v)]
        ELSE [v |-> rd.v, cache |-> rdma_cache]

\* a remote read that takes the values from the entry array of the calling
\* server instead of the owner's
get_edges_remote_own_entries(r, key) ==
    LET g == get_vertex_remote(r, key)
    IN  IF g.v.key = EmptyKey THEN [size |-> 0, vals |-> <<>>, cache |-> g.cache]
        ELSE [size |-> g.v.ptr.size, vals |-> EdgeSlice(edges[r], g.v.ptr),
              cache |-> g.cache]

\* get_edges_remote on server r
get_edges_remote(r, key) ==
    LET dst_sid == hash_mod(key.vid, global_num_servers)
        g == get_vertex_remote(r, key)
    IN  IF g.v.key = EmptyKey THEN [size |-> 0, vals |-> <<>>, cache |-> g.cache]
        ELSE [size |-> g.v.ptr.size, vals |-> EdgeSlice(edges[dst_sid], g.v.ptr),
              cache |-> g.cache]

Serving == \A s \in Servers : phase[s] = "serve"

\* the keys the query engine asks for
LookupKeys ==
    {ikey_t(v, d, p) : v \in Vids, d \in {DIR_IN, DIR_OUT}, p \in Pids} \cup
    {ikey_t(v, DIR_OUT, TYPE_ID) : v \in Vids} \cup
    {ikey_t(b, DIR_IN, PREDICATE_ID) : b \in Buckets \ (0 .. (num_buckets - 1))}

\* the index lists the query engine asks for
IndexKeys == {<<p, d>> : p \in Pids, d \in {DIR_IN, DIR_OUT}} \cup {<<t, DIR_IN>> : t \in Tids}

\* a get_edges_global that keeps the vertex it fetched in the slot array of
\* the calling server
get_edges_global_keep(r, key) ==
    /\ Serving
    /\ LET e == IF hash_mod(key.vid, global_num_servers) = r
                THEN get_edges_local(r, key) ELSE get_edges_remote(r, key)
           slot_id == (Hash(key) % num_buckets) * ASSOCIATIVITY
       IN  /\ ret' = [sid |-> r, key |-> key, size |-> e.size, vals |-> e.vals]
           /\ vertices' = IF hash_mod(key.vid, global_num_servers) = r \/ e.size = 0
                          THEN vertices
                          ELSE [vertices EXCEPT ![r][slot_id] =
                                   [key |-> key, ptr |-> iptr_t(e.size, 0)]]
    /\ UNCHANGED <<edges, last_ext, last_entry, phase, abort, calls, triples, idxvars,
                   rdma_cache, global_enable_caching, item_locks>>
    /\ UNCHANGED concvars

get_edges_global(r, key) ==
    /\ Serving
    /\ IF hash_mod(key.vid, global_num_servers) = r
       THEN LET e == get_edges_local(r, key)
            IN  /\ ret' = [sid |-> r, key |-> key, size |-> e.size, vals |-> e.vals]
                /\ UNCHANGED rdma_cache
       ELSE LET e == get_edges_remote(r, key)
            IN  /\ ret' = [sid |-> r, key |-> key, size |-> e.size, vals |-> e.vals]
                /\ rdma_cache' = e.cache
    /\ UNCHANGED <<storevars, phase, abort, calls, triples, idxvars, global_enable_caching,
                   item_locks>>
    /\ UNCHANGED concvars

get_index_edges_local(s, pid, d) ==
    /\ Serving
    /\ LET e == get_edges_local(s, ikey_t(0, d, pid))
       IN  ret' = [sid |-> s, key |-> ikey_t(0, d, pid), size |-> e.size, vals |-> e.vals]
    /\ UNCHANGED <<storevars, phase, abort, calls, triples, idxvars, rdma_cache,
                   global_enable_caching, item_locks>>
    /\ UNCHANGED concvars

----------------------------------------------------------------------------
(* The store from construction to serving                                  *)

Init ==
    /\ vertices = [s \in Servers |-> [i \in Slots |-> RawSlot]]
    /\ edges = [s \in Servers |-> [e \in Entries |-> Garbage]]
    /\ last_ext \in [Servers -> UninitCounter]
    /\ last_entry = [s \in Servers |-> 0]
    /\ phase = [s \in Servers |-> "new"]
    /\ abort = [s \in Servers |-> "none"]
    /\ calls = <<>>
    /\ triples \in {T \in SUBSET TripleUniverse : Cardinality(T) <= MaxTriples}
    /\ IndexIdle
    /\ rdma_cache = [s \in Servers |-> [i \in 0 .. (NUM_ITEMS - 1) |-> EmptyVertex]]
    /\ item_locks = [s \in Servers |-> [i \in 0 .. (NUM_ITEMS - 1) |-> -1]]
    /\ global_enable_caching \in BOOLEAN
    /\ ret = NoRet
    /\ ConcIdle

Next ==
    \/ \E s \in Servers : init(s)
    \/ \E s \in Servers, w \in WildKeys : insert_normal(s, w)
    \/ \E s \in Servers, t \in Threads : scan_slot(s, t)
    \/ \E s \in Servers, w \in WildKeys : insert_index(s, w)
    \/ \E r \in Servers, key \in LookupKeys : get_edges_global(r, key)
    \/ \E s \in Servers, k \in IndexKeys : get_index_edges_local(s, k[1], k[2])

Spec == Init /\ [][Next]_vars

\* the build of a store compiled with VERSATILE, up to the end of
\* insert_normal
NextVersatile ==
    \/ \E s \in Servers : init(s)
    \/ \E s \in Servers, w \in WildKeys : insert_normal_VERSATILE(s, w)

SpecVersatile == Init /\ [][NextVersatile]_vars

----------------------------------------------------------------------------
(* Concurrent get_vertex_remote: the threads of one server and its cache   *)

\* number of get_vertex_remote calls of a thread
MaxReads == 2

\* the server whose threads read, and the server that owns what they read
Reader == 1
Owner == 0

\* the dataset the owner is built from
CacheTriples == {triple_t(4, 2, 5), triple_t(4, TYPE_ID, 3)}

\* the keys the threads ask for: those of the owner's vertices
CacheKeys == {key \in LookupKeys : key.vid \in Vids /\
                                   hash_mod(key.vid, global_num_servers) = Owner}

InitCache ==
    /\ Init
    /\ triples = CacheTriples
    /\ last_ext[Reader] = 0

\* line 60 and line 75
item_of(key) == Hash(key) % NUM_ITEMS

\* a comparison that takes every filled item for a hit
cache_hit_any(item, key) == item.key # EmptyKey

\* line 64
cache_hit(item, key) == item.key = key

\* line 177 and lines 58-59: the call, up to the test of the caching flag
Fetch(t, key) ==
    /\ phase[Owner] = "serve"
    /\ thr[t].pc = "idle"
    /\ thr[t].n < MaxReads
    /\ thr' = [thr EXCEPT ![t].key = key,
                          ![t].pc = IF global_enable_caching THEN "c_lock" ELSE "walk"]
    /\ UNCHANGED <<storevars, phase, abort, calls, triples, idxvars, servevars, lockvars,
                   histvars>>

\* line 62
CacheLock(t) ==
    /\ thr[t].pc = "c_lock"
    /\ item_locks[Reader][item_of(thr[t].key)] = -1
    /\ item_locks' = [item_locks EXCEPT ![Reader][item_of(thr[t].key)] = t]
    /\ thr' = [thr EXCEPT ![t].pc = "c_cmp"]
    /\ UNCHANGED <<storevars, phase, abort, calls, triples, idxvars, rdma_cache,
                   global_enable_caching, ret, lockvars, histvars>>

\* line 64
CacheCompare(t) ==
    /\ thr[t].pc = "c_cmp"
    /\ thr' = [thr EXCEPT ![t].pc =
                  IF cache_hit(rdma_cache[Reader][item_of(thr[t].key)], thr[t].key)
                  THEN "c_key" ELSE "c_miss"]
    /\ UNCHANGED <<storevars, phase, abort, calls, triples, idxvars, servevars, lockvars,
                   histvars>>

\* line 65, the key of the record
CopyKey(t) ==
    /\ thr[t].pc = "c_key"
    /\ thr' = [thr EXCEPT ![t].v.key = rdma_cache[Reader][item_of(thr[t].key)].key,
                          ![t].pc = "c_ptr"]
    /\ UNCHANGED <<storevars, phase, abort, calls, triples, idxvars, servevars, lockvars,
                   histvars>>

\* line 65, the pointer of the record, and line 66
CopyPtr(t) ==
    /\ thr[t].pc = "c_ptr"
    /\ thr' = [thr EXCEPT ![t].v.ptr = rdma_cache[Reader][item_of(thr[t].key)].ptr,
                          ![t].pc = "c_hit"]
    /\ UNCHANGED <<storevars, phase, abort, calls, triples, idxvars, servevars, lockvars,
                   histvars>>

\* lines 68-69 and the test of line 177
CacheUnlock(t) ==
    /\ thr[t].pc \in {"c_hit", "c_miss"}
    /\ item_locks' = [item_locks EXCEPT ![Reader][item_of(thr[t].key)] = -1]
    /\ thr' = [thr EXCEPT ![t].pc = IF thr[t].pc = "c_hit" THEN "hit" ELSE "walk"]
    /\ UNCHANGED <<storevars, phase, abort, calls, triples, idxvars, rdma_cache,
                   global_enable_caching, ret, lockvars, histvars>>

\* lines 179-204: the RdmaRead loop over the owner's buckets, and lines 73-74
Walk(t) ==
    /\ thr[t].pc = "walk"
    /\ LET rd == remote_walk(hash_mod(thr[t].key.vid, global_num_servers), thr[t].key,
                             Hash(thr[t].key) % num_buckets, 0)
       IN  thr' = [thr EXCEPT ![t].v = rd.v,
                              ![t].pc = IF rd.found /\ global_enable_caching
                                        THEN "i_lock" ELSE "done"]
    /\ UNCHANGED <<storevars, phase, abort, calls, triples, idxvars, servevars, lockvars,
                   histvars>>

\* line 77
InsertLock(t) ==
    /\ thr[t].pc = "i_lock"
    /\ item_locks[Reader][item_of(thr[t].v.key)] = -1
    /\ item_locks' = [item_locks EXCEPT ![Reader][item_of(thr[t].v.key)] = t]
    /\ thr' = [thr EXCEPT ![t].pc = "i_key"]
    /\ UNCHANGED <<storevars, phase, abort, calls, triples, idxvars, rdma_cache,
                   global_enable_caching, ret, lockvars, histvars>>

\* line 78, the key of the record
StoreKey(t) ==
    /\ thr[t].pc = "i_key"
    /\ rdma_cache' = [rdma_cache EXCEPT ![Reader][item_of(thr[t].v.key)].key = thr[t].v.key]
    /\ thr' = [thr EXCEPT ![t].pc = "i_ptr"]
    /\ UNCHANGED <<storevars, phase, abort, calls, triples, idxvars, global_enable_caching,
                   ret, item_locks, lockvars, histvars>>

\* line 78, the pointer of the record
StorePtr(t) ==
    /\ thr[t].pc = "i_ptr"
    /\ rdma_cache' = [rdma_cache EXCEPT ![Reader][item_of(thr[t].v.key)].ptr = thr[t].v.ptr]
    /\ thr' = [thr EXCEPT ![t].pc = "i_unlock"]
    /\ UNCHANGED <<storevars, phase, abort, calls, triples, idxvars, global_enable_caching,
                   ret, item_locks, lockvars, histvars>>

\* line 79
InsertUnlock(t) ==
    /\ thr[t].pc = "i_unlock"
    /\ item_locks' = [item_locks EXCEPT ![Reader][item_of(thr[t].v.key)] = -1]
    /\ thr' = [thr EXCEPT ![t].pc = "done"]
    /\ UNCHANGED <<storevars, phase, abort, calls, triples, idxvars, rdma_cache,
                   global_enable_caching, ret, lockvars, histvars>>

\* lines 178, 191 and 203: the record goes to the caller
Return(t) ==
    /\ thr[t].pc \in {"hit", "done"}
    /\ thr' = [thr EXCEPT ![t] = [NoCall EXCEPT !.n = thr[t].n + 1]]
    /\ UNCHANGED <<storevars, phase, abort, calls, triples, idxvars, servevars, lockvars,
                   histvars>>

NextCache ==
    \/ init(Owner)
    \/ \E w \in WildKeys : insert_normal(Owner, w)
    \/ \E t \in Threads : scan_slot(Owner, t)
    \/ \E w \in WildKeys : insert_index(Owner, w)
    \/ \E t \in Threads, key \in CacheKeys : Fetch(t, key)
    \/ \E t \in Threads : CacheLock(t)
    \/ \E t \in Threads : CacheCompare(t)
    \/ \E t \in Threads : CopyKey(t)
    \/ \E t \in Threads : CopyPtr(t)
    \/ \E t \in Threads : CacheUnlock(t)
    \/ \E t \in Threads : Walk(t)
    \/ \E t \in Threads : InsertLock(t)
    \/ \E t \in Threads : StoreKey(t)
    \/ \E t \in Threads : StorePtr(t)
    \/ \E t \in Threads : InsertUnlock(t)
    \/ \E t \in Threads : Return(t)

SpecCache == InitCache /\ [][NextCache]_vars

----------------------------------------------------------------------------
(* Claims about insert_key                                                 *)

lookup(s, key) == get_vertex_local(vertices[s], key, Hash(key) % num_buckets, 0)

\* the calls that returned
Stored == {i \in 1 .. Len(calls) : calls[i].st = "ok"}

\* C1: after successful insert_key calls on distinct keys, get_vertex_local
\* returns, for every inserted key, the record with that key and the pointer
\* written at insert time
C1_LookupReturnsInserted ==
    (phase[0] = "empty" /\ \A i, j \in Stored : i # j => calls[i].key # calls[j].key) =>
        \A i \in Stored :
            /\ lookup(0, calls[i].key).key = calls[i].key
            /\ lookup(0, calls[i].key).ptr = calls[i].ptr

\* the data slots of the table: every slot of a bucket but its last
DataSlots == {i \in Slots : i \div ASSOCIATIVITY \in Buckets /\ i % ASSOCIATIVITY < ASSOCIATIVITY - 1}

\* C5: no key is stored twice: a non-empty key occupies at most one data
\* slot and insert_key never accepts the same key a second time
C5_NoDuplicateKey ==
    phase[0] # "new" =>
        /\ \A i, j \in DataSlots :
              (i # j /\ vertices[0][i].key = vertices[0][j].key) => vertices[0][i].key = EmptyKey
        /\ \A i, j \in Stored : i # j => calls[i].key # calls[j].key

\* the calls made so far passed pairwise distinct keys of one primary bucket
Colliding ==
    /\ \A i, j \in 1 .. Len(calls) : i # j => calls[i].key # calls[j].key
    /\ \A i, j \in 1 .. Len(calls) :
          Hash(calls[i].key) % num_buckets = Hash(calls[j].key) % num_buckets

\* ceil(k / (ASSOCIATIVITY - 1)) - 1
OverflowNeeded(k) == ((k + ASSOCIATIVITY - 2) \div (ASSOCIATIVITY - 1)) - 1

\* C7: k distinct keys of one primary bucket, with enough overflow buckets
\* left, are all stored, are all found by lookup, and consume exactly
\* ceil(k / (A-1)) - 1 overflow buckets
C7_CollidingKeysChain ==
    LET k == Len(calls)
    IN  (/\ k >= 1
         /\ Colliding
         /\ calls[k].st # "entry"
         /\ calls[1].ext + OverflowNeeded(k) <= num_buckets_ext)
        => /\ \A i \in 1 .. k : calls[i].st = "ok"
           /\ \A i \in 1 .. k : lookup(0, calls[i].key).key = calls[i].key
           /\ last_ext[0] - calls[1].ext = OverflowNeeded(k)

\* C8: during build the allocation counters never decrease and stay
\* strictly below their capacities
C8_CountersBelowCapacity ==
    /\ [](\A s \in Servers :
            phase[s] \in {"empty", "loaded"} =>
                (last_entry[s] < num_entries /\ last_ext[s] < num_buckets_ext))
    /\ [][\A s \in Servers :
            last_entry'[s] >= last_entry[s] /\ last_ext'[s] >= last_ext[s]]_vars

\* the chain that lookup follows from bucket_id has no free data slot
RECURSIVE chain_full(_, _, _)
chain_full(V, bucket_id, hops) ==
    /\ \A i \in 0 .. (ASSOCIATIVITY - 2) : V[bucket_id * ASSOCIATIVITY + i].key # EmptyKey
    /\ LET c == V[bucket_id * ASSOCIATIVITY + ASSOCIATIVITY - 1].key
       IN  c # EmptyKey => (hops < num_buckets_ext /\ c.vid \in Buckets
                            /\ chain_full(V, c.vid, hops + 1))

\* C9: on a store whose last_ext started at 0, an insert_key call of a new
\* key that finds its chain full when every overflow
\* bucket is allocated fails an assertion and leaves the slot array as it was
C9_ExhaustionAborts ==
    [][(/\ Len(calls') = Len(calls) + 1
        /\ calls'[Len(calls')].st # "entry"
        /\ \A i \in Slots : vertices[0][i].key # calls'[Len(calls')].key
        /\ chain_full(vertices[0], Hash(calls'[Len(calls')].key) % num_buckets, 0)
        /\ calls[1].ext = 0
        /\ last_ext[0] >= num_buckets_ext)
       => (/\ calls'[Len(calls')].st \in {"ext", "slot"}
           /\ vertices' = vertices)]_vars

----------------------------------------------------------------------------
(* Claims about the built store                                            *)

owner(vid) == hash_mod(vid, global_num_servers)

\* the values of the run of key (v, d, p) in a sorted triple sequence
run_vals(seq, d, v, p) ==
    LET InRun(t) == t.p = p /\ (IF d = DIR_OUT THEN t.s = v ELSE t.o = v)
        run == SelectSeq(seq, InRun)
    IN  [i \in 1 .. Len(run) |-> IF d = DIR_OUT THEN run[i].o ELSE run[i].s]

\* the keys insert_normal is asked to store on server s
NormalKeys(s) ==
    {ikey_t(t.s, DIR_OUT, t.p) : t \in {u \in triples : owner(u.s) = s}} \cup
    {ikey_t(t.o, DIR_IN, t.p) : t \in {u \in triples : owner(u.o) = s /\ ~is_tpid(u.o)}}

expected_vals(s, key) ==
    IF key.dir = DIR_OUT THEN run_vals(spo_of(s), DIR_OUT, key.vid, key.pid)
    ELSE run_vals(ops_of(s), DIR_IN, key.vid, key.pid)

\* C2: after insert_normal on the sorted inputs of a server, get_edges_local
\* of the key of every run returns the run's length and the run's values in
\* input order
C2_NormalRunsReadable ==
    \A s \in Servers : phase[s] = "loaded" =>
        \A key \in NormalKeys(s) :
            /\ get_edges_local(s, key).size = Len(expected_vals(s, key))
            /\ get_edges_local(s, key).vals = expected_vals(s, key)

SeqContains(seq, x) == \E i \in DOMAIN seq : seq[i] = x

\* C3: after insert_index, every normal key (v, OUT, p) of the table has v in
\* the list of (0, OUT, p), every normal key (v, IN, p) has v in the list of
\* (0, IN, p), every type t of (v, OUT, TYPE_ID) has v in the list of
\* (0, IN, t); and after building a single triple (s, p, o) the index of
\* (p, OUT) is [s] and the index of (p, IN) is [o]
C3_IndexCoversNormalKeys ==
    /\ \A s \in Servers : phase[s] = "serve" =>
          \A i \in DataSlots :
             LET k == vertices[s][i].key
             IN  (k.vid # 0 /\ k.pid # PREDICATE_ID) =>
                    IF k.dir = DIR_OUT /\ k.pid = TYPE_ID
                    THEN \A j \in 1 .. Len(EdgeSlice(edges[s], vertices[s][i].ptr)) :
                            SeqContains(
                              get_edges_local(s, ikey_t(0, DIR_IN,
                                  EdgeSlice(edges[s], vertices[s][i].ptr)[j])).vals,
                              k.vid)
                    ELSE SeqContains(get_edges_local(s, ikey_t(0, k.dir, k.pid)).vals, k.vid)
    /\ \A t \in triples :
          (triples = {t} /\ t.p # TYPE_ID /\ Serving) =>
             /\ get_edges_local(owner(t.s), ikey_t(0, DIR_OUT, t.p)).vals = <<t.s>>
             /\ get_edges_local(owner(t.o), ikey_t(0, DIR_IN, t.p)).vals = <<t.o>>

\* every key a caller can form
KeyUniverse ==
    {ikey_t(v, d, p) : v \in 0 .. (num_buckets + num_buckets_ext),
                       d \in {DIR_IN, DIR_OUT}, p \in 0 .. (TPID_MAX - 1)}

\* the keys the build may have been asked to store on server s
InsertedKeys(s) ==
    NormalKeys(s) \cup
    {ikey_t(0, d, p) : d \in {DIR_IN, DIR_OUT}, p \in Pids \cup Tids}

\* C4: a lookup of a key that was never inserted returns size 0, locally on
\* any built store and remotely from any other server
C4_AbsentKeySizeZero ==
    /\ \A s \in Servers : phase[s] \in {"empty", "loaded", "serve"} =>
          \A key \in KeyUniverse \ InsertedKeys(s) : get_edges_local(s, key).size = 0
    /\ Serving =>
          \A r \in Servers : \A key \in KeyUniverse :
              (r # owner(key.vid) /\ key \notin InsertedKeys(owner(key.vid))) =>
                  get_edges_remote(r, key).size = 0

\* C6: what get_edges_global has returned on any server, with the cache on
\* or off and whatever it holds, is the size and the values get_edges_local
\* gives for the key on the server that owns it
C6_RemoteEqualsLocal ==
    (Serving /\ ret.sid # -1 /\ ret.key.vid # 0) =>
        /\ ret.size = get_edges_local(owner(ret.key.vid), ret.key).size
        /\ ret.vals = get_edges_local(owner(ret.key.vid), ret.key).vals

\* a remote call has returned a found key from the cache
C6_Witness ==
    /\ Serving
    /\ global_enable_caching
    /\ ret.sid # -1
    /\ ret.sid # owner(ret.key.vid)
    /\ ret.size > 0
    /\ cache_lookup(ret.sid, ret.key).found

\* what the reader that produced a result for key on server r returns:
\* get_index_edges_local for an index key, get_edges_global otherwise
reader_result(r, key) ==
    IF key.vid = 0 \/ owner(key.vid) = r
    THEN [size |-> get_edges_local(r, key).size, vals |-> get_edges_local(r, key).vals]
    ELSE [size |-> get_edges_remote(r, key).size, vals |-> get_edges_remote(r, key).vals]

\* C10: once insert_index has completed on a server no step changes its slot
\* array, its entry array, last_entry or last_ext; and once every server
\* serves, repeating the last lookup returns the size and the values it
\* returned
C10_ReadersChangeNothing ==
    /\ [][\A s \in Servers : phase[s] = "serve" =>
             /\ vertices'[s] = vertices[s]
             /\ edges'[s] = edges[s]
             /\ last_entry'[s] = last_entry[s]
             /\ last_ext'[s] = last_ext[s]]_vars
    /\ []((Serving /\ ret.sid # -1) =>
             reader_result(ret.sid, ret.key) = [size |-> ret.size, vals |-> ret.vals])

\* readers have run: one item of a cache is filled, by an earlier call than
\* the last, which returned a list
C10_Witness ==
    /\ Serving
    /\ ret.size > 0
    /\ \E r \in Servers : \E i \in 0 .. (NUM_ITEMS - 1) :
          rdma_cache[r][i].key # EmptyKey /\ rdma_cache[r][i].key # ret.key

----------------------------------------------------------------------------
(* Claims about the build as a whole                                       *)

\* a store of server s right after construction and init(), its last_ext
\* holding le
FreshStore(le) ==
    [V |-> [i \in Slots |-> [key |-> EmptyKey, ptr |-> iptr_t(Garbage, Garbage)]],
     E |-> [e \in Entries |-> Garbage], le |-> le, lent |-> 0, st |-> "ok",
     slot |-> 0, orig |-> 0, off |-> 0]

\* the scan of lines 494-543 run over the data slots n, n + 1, ... in order
RECURSIVE scan_from(_, _, _, _)
scan_from(M, V, E, n) ==
    IF ~(n < (num_buckets + num_buckets_ext) * (ASSOCIATIVITY - 1)) THEN M
    ELSE scan_from(scan_vertex(M, V[(n \div (ASSOCIATIVITY - 1)) * ASSOCIATIVITY
                                     + (n % (ASSOCIATIVITY - 1))], E),
                   V, E, n + 1)

\* every outcome of building a fresh store of server s from its triples
Rebuilds(s) ==
    UNION {
        LET B1 == insert_normal_on(FreshStore(le), w, spo_of(s), ops_of(s))
            M == scan_from([pin |-> <<>>, pout |-> <<>>, tidx |-> <<>>, st |-> "ok"],
                           B1.V, B1.E, 0)
        IN  IF B1.st # "ok" \/ M.st # "ok" THEN {}
            ELSE {insert_index_maps(B1, w, M, ot, oi, oo) :
                    ot \in Orders(M.tidx), oi \in Orders(M.pin), oo \in Orders(M.pout)}
        : le \in UninitCounter, w \in WildKeys}

\* C11: a second fresh store built from the same triples ends with the slot
\* array of the first: the same key and pointer record in every slot,
\* whatever the schedule of the scan and the iteration order of the maps
C11_BuildDeterministic ==
    \A s \in Servers :
        phase[s] = "serve" =>
            \A B \in Rebuilds(s) : B.st = "ok" => B.V = vertices[s]

\* the predicates of the triples of seq whose subject (d = OUT) or object
\* (d = IN) is v, from index s on
preds_of(seq, d, v, s) == {seq[i].p : i \in {j \in s .. Len(seq) : vertex_of(seq, d, j) = v}}

\* what the claim says key (v, d, PREDICATE_ID) of server s reads as
versatile_ok(s, seq, d, v, from) ==
    LET e == get_edges_local(s, ikey_t(v, d, PREDICATE_ID))
        P == preds_of(seq, d, v, from)
    IN  /\ e.size = Cardinality(P)
        /\ Len(e.vals) = e.size
        /\ {e.vals[i] : i \in DOMAIN e.vals} = P

\* C12: with VERSATILE, after insert_normal the value of (v, OUT, PREDICATE_ID)
\* is the distinct predicates of v's outgoing triples, each once, the value
\* of (o, IN, PREDICATE_ID) the distinct predicates of the triples of ops
\* past the type prefix whose object is o, and the pass takes as many
\* entries as there are distinct (s, p) and (o, p) pairs
C12_VersatilePredicateLists ==
    \A s \in Servers :
        phase[s] = "loaded" =>
            LET spo == spo_of(s)
                ops == ops_of(s)
                tt == count_type_triples(ops, 0)
            IN  /\ \A i \in DOMAIN spo : versatile_ok(s, spo, DIR_OUT, spo[i].s, 1)
                /\ \A i \in (tt + 1) .. Len(ops) : versatile_ok(s, ops, DIR_IN, ops[i].o, tt + 1)
                /\ last_entry[s] - (Len(spo) + Len(ops) - tt) =
                      Cardinality({<<spo[i].s, spo[i].p>> : i \in DOMAIN spo}) +
                      Cardinality({<<ops[i].o, ops[i].p>> : i \in (tt + 1) .. Len(ops)})

\* the triples of server s whose object is a type id
type_ops(s) == {t \in triples : hash_mod(t.o, global_num_servers) = s /\ is_tpid(t.o)}

\* C13: insert_normal skips the type triples at the head of ops: it
\* reserves |spo| + |ops| - type_triples entries and creates no key
\* (o, IN, p) for a type id o; every TYPE_ID triple of the data set having a
\* type id for object, no key with dir IN and pid TYPE_ID exists and the scan
\* of insert_index never fails the assertion of line 516
C13_TypePrefixSkipped ==
    \A s \in Servers :
        /\ abort[s] # "type"
        /\ phase[s] \in {"loaded", "serve"} =>
              \A i \in Slots :
                  LET k == vertices[s][i].key
                  IN  k # EmptyKey /\ k.dir = DIR_IN => k.pid # TYPE_ID
        /\ phase[s] = "loaded" =>
              /\ last_entry[s] = Len(spo_of(s)) + Len(ops_of(s)) - Cardinality(type_ops(s))
              /\ \A i \in Slots, t \in type_ops(s) :
                  LET k == vertices[s][i].key
                  IN  ~(k # EmptyKey /\ k.dir = DIR_IN /\ k.vid = t.o)

\* a server with type triples and other triples in ops has run the scan to
\* its end and serves
C13_Witness ==
    \E s \in Servers :
        /\ phase[s] = "serve"
        /\ type_ops(s) # {}
        /\ Len(ops_of(s)) > Cardinality(type_ops(s))

----------------------------------------------------------------------------
(* Claims about the chains                                                 *)

\* the last slot of every bucket
ChainSlots == {i \in Slots : i % ASSOCIATIVITY = ASSOCIATIVITY - 1}

\* C14: the last slot of a bucket is used only as chain pointer: it is
\* empty or its vid is the index of an allocated overflow bucket; data keys
\* live in data slots only, and insert_key writes no chain pointer into a
\* data slot
C14_ChainSlotDiscipline ==
    phase[0] = "empty" =>
        /\ \A i \in ChainSlots :
              LET k == vertices[0][i].key
              IN  k = EmptyKey \/
                  (k.vid >= num_buckets /\ k.vid < num_buckets + last_ext[0])
        /\ \A i \in DataSlots :
              LET k == vertices[0][i].key
              IN  k = EmptyKey \/ \E j \in 1 .. Len(calls) : calls[j].key = k

\* the buckets the walk of get_vertex_local / get_vertex_remote visits from
\* bucket_id on for a key it does not find, in order; the walk is cut once
\* it leaves the table or has visited more buckets than the table has
RECURSIVE walk(_, _, _)
walk(V, bucket_id, seen) ==
    IF bucket_id \notin Buckets \/ Len(seen) > num_buckets + num_buckets_ext
    THEN Append(seen, bucket_id)
    ELSE IF next_bucket(V, bucket_id) = -1 THEN Append(seen, bucket_id)
    ELSE walk(V, next_bucket(V, bucket_id), Append(seen, bucket_id))

\* C15: in every table state reachable by inserts the chains have no cycle
\* and share no overflow bucket, and the walk of get_vertex_local and
\* get_vertex_remote ends after at most num_buckets_ext + 1 buckets
C15_ChainWalkTerminates ==
    phase[0] = "empty" =>
        /\ \A b \in 0 .. (num_buckets - 1) :
              LET c == walk(vertices[0], b, <<>>)
              IN  /\ Len(c) <= num_buckets_ext + 1
                  /\ \A i \in DOMAIN c : c[i] \in Buckets
                  /\ \A i, j \in DOMAIN c : i # j => c[i] # c[j]
        /\ \A a, b \in 0 .. (num_buckets - 1) :
              a # b =>
                  LET ca == walk(vertices[0], a, <<>>)
                      cb == walk(vertices[0], b, <<>>)
                  IN  {ca[i] : i \in DOMAIN ca} \cap {cb[i] : i \in DOMAIN cb} = {}

\* two keys were stored in overflow buckets, whose chains the walk is to
\* follow
C15_Witness ==
    /\ phase[0] = "empty"
    /\ \E i, j \in Stored :
          /\ i # j
          /\ calls[i].slot >= num_buckets * ASSOCIATIVITY
          /\ calls[j].slot >= num_buckets * ASSOCIATIVITY
          /\ calls[i].slot # calls[j].slot

----------------------------------------------------------------------------
(* Claims about concurrent inserts                                         *)

\* thread t is between lines 119 and 156 of insert_key
Locked(t) ==
    thr[t].pc \in {"scan", "put", "chain", "follow", "ext_lock", "ext", "move", "fill", "unlock"}

\* C16: two threads that call insert_key with the same key at the same time
\* are never both between lock and unlock, do not both store the key, and the
\* key never occupies two slots
C16_SameKeyOnce ==
    \A t, u \in Threads :
        (t # u /\ thr[t].pc # "idle" /\ thr[u].pc # "idle" /\ thr[t].key = thr[u].key) =>
            /\ ~(Locked(t) /\ Locked(u))
            /\ ~(thr[t].pc = "check" /\ thr[u].pc = "check")
            /\ Cardinality({i \in Slots : vertices[0][i].key = thr[t].key}) <= 1

\* the keys of the calls made so far, returned or running, are pairwise
\* distinct
DistinctCalls ==
    /\ \A i, j \in 1 .. Len(calls) : i # j => calls[i].key # calls[j].key
    /\ \A t \in Threads, i \in 1 .. Len(calls) : thr[t].pc # "idle" => thr[t].key # calls[i].key
    /\ \A t, u \in Threads :
          (t # u /\ thr[t].pc # "idle" /\ thr[u].pc # "idle") => thr[t].key # thr[u].key

\* C17: whatever the interleaving of insert_key calls on pairwise distinct
\* keys, no slot has its key written under two different stripe locks, and
\* once the calls have returned every key occupies a slot of its own, none
\* was overwritten and lookup finds each
C17_DistinctKeysKept ==
    (phase[0] = "empty" /\ DistinctCalls) =>
        /\ \A a, b \in writes : a.slot = b.slot => a.lock = b.lock
        /\ (\A t \in Threads : thr[t].pc = "idle") =>
              /\ \A i \in 1 .. Len(calls) : vertices[0][calls[i].slot].key = calls[i].key
              /\ \A i \in 1 .. Len(calls) : lookup(0, calls[i].key).key = calls[i].key

\* C19: an overflow bucket index is handed out at most once: the index is
\* num_buckets plus last_ext before its increment, lies in
\* [num_buckets, num_buckets + num_buckets_ext), and no overflow bucket is
\* linked from two chain slots
C19_OverflowIndexOnce ==
    /\ [](/\ \A i, j \in 1 .. Len(handed) : i # j => handed[i].idx # handed[j].idx
          /\ \A i \in 1 .. Len(handed) :
                handed[i].idx >= num_buckets /\ handed[i].idx < num_buckets + num_buckets_ext
          /\ phase[0] # "new" =>
                \A i, j \in ChainSlots :
                    (/\ i # j
                     /\ vertices[0][i].key # EmptyKey
                     /\ vertices[0][j].key # EmptyKey)
                    => vertices[0][i].key.vid # vertices[0][j].key.vid)
    /\ [][Len(handed') = Len(handed) + 1 =>
            /\ handed'[Len(handed')].idx = num_buckets + last_ext[0]
            /\ last_ext'[0] = last_ext[0] + 1]_vars

\* two threads on different stripes need an overflow bucket at the same
\* time: one holds the allocator's lock, the other waits for it
C19_Witness ==
    \E t, u \in Threads :
        /\ thr[t].pc = "ext"
        /\ thr[u].pc = "ext_lock"
        /\ lock_of(thr[t].key) # lock_of(thr[u].key)

\* the ranges handed out so far: those of the calls that returned and of
\* the threads past line 166
Ranges ==
    {[id |-> i, off |-> calls[i].ptr.off, size |-> calls[i].ptr.size] : i \in 1 .. Len(calls)}
    \cup {[id |-> 0 - t - 1, off |-> thr[t].orig, size |-> thr[t].n] :
            t \in {u \in Threads : thr[u].pc = "entry_unlock"}}

\* C18: sync_fetch_and_alloc_edges(n) returns the value last_entry had
\* before the call and advances last_entry by n; the ranges
\* [orig, orig + n) handed to concurrent calls are pairwise disjoint and lie
\* inside [0, num_entries)
C18_EntryRangesDisjoint ==
    /\ [](\A a, b \in Ranges :
            /\ a.off >= 0 /\ a.off + a.size <= num_entries
            /\ a.id # b.id => (a.off + a.size <= b.off \/ b.off + b.size <= a.off))
    /\ [][\A t \in Threads :
            (thr[t].pc = "add" /\ thr'[t].pc = "entry_unlock") =>
                /\ thr'[t].orig = last_entry[0]
                /\ last_entry'[0] = last_entry[0] + thr[t].n]_vars

\* a thread waits for the lock while the other is between lines 165 and
\* 166, after an earlier reservation
C18_Witness ==
    \E t, u \in Threads :
        /\ thr[t].pc = "add"
        /\ thr[u].pc = "entry_lock"
        /\ Len(calls) >= 1

----------------------------------------------------------------------------
(* Claims about the index lists                                            *)

\* the data slots of server s that hold a key (v, d, pid) of a vertex v
slots_with(s, d, pid) ==
    {i \in DataSlots : /\ vertices[s][i].key # EmptyKey
                       /\ vertices[s][i].key.vid # 0
                       /\ vertices[s][i].key.dir = d
                       /\ vertices[s][i].key.pid = pid}

\* how often x occurs in seq
occurrences(seq, x) == Cardinality({i \in DOMAIN seq : seq[i] = x})

\* the value of index key (0, d, pid) of server s lists the vids of the
\* keys (v, from, pid) of the table, one entry per slot
lists_keys(s, d, pid, from) ==
    LET e == get_edges_local(s, ikey_t(0, d, pid))
    IN  /\ e.size = Cardinality(slots_with(s, from, pid))
        /\ Len(e.vals) = e.size
        /\ \A v \in Vids :
              occurrences(e.vals, v) =
                  Cardinality({i \in slots_with(s, from, pid) : vertices[s][i].key.vid = v})

\* the value of index key (0, IN, t) of server s lists the vids whose
\* (v, OUT, TYPE_ID) adjacency contains t, one entry per occurrence
lists_types(s, t) ==
    LET e == get_edges_local(s, ikey_t(0, DIR_IN, t))
        hits(v) == {x \in slots_with(s, DIR_OUT, TYPE_ID) \X Entries :
                        /\ vertices[s][x[1]].key.vid = v
                        /\ x[2] >= vertices[s][x[1]].ptr.off
                        /\ x[2] < vertices[s][x[1]].ptr.off + vertices[s][x[1]].ptr.size
                        /\ edges[s][x[2]] = t}
    IN  /\ Len(e.vals) = e.size
        /\ \A v \in Vids : occurrences(e.vals, v) = Cardinality(hits(v))
        /\ e.size = Cardinality(UNION {hits(v) : v \in Vids})

\* C20: after insert_index the value of (0, OUT, p) is the vids v that have
\* a key (v, IN, p) in the table, that of (0, IN, p) the vids that have a key
\* (v, OUT, p), that of (0, IN, t) the vids whose (v, OUT, TYPE_ID) adjacency
\* contains t, each once per contributing slot and with the list's length
\* for size, whatever the schedule of the scan
C20_IndexListsMatchScan ==
    \A s \in Servers :
        phase[s] = "serve" =>
            /\ \A pid \in Pids : lists_keys(s, DIR_OUT, pid, DIR_IN)
            /\ \A pid \in Pids : lists_keys(s, DIR_IN, pid, DIR_OUT)
            /\ \A t \in Tids : lists_types(s, t)

----------------------------------------------------------------------------
(* Claims about construction                                               *)

\* C23: after construction and init() the store is empty: every slot's key
\* is the empty key and last_entry and last_ext are 0, so that the first
\* overflow bucket is num_buckets and the first entry range starts at 0
C23_EmptyAfterInit ==
    (phase[0] = "empty" /\ calls = <<>>) =>
        /\ \A i \in Slots : vertices[0][i].key = EmptyKey
        /\ last_entry[0] = 0
        /\ last_ext[0] = 0

----------------------------------------------------------------------------
(* Claims about the cache of remote vertices                               *)

\* what the remote bucket walk of key finds in the table of key's owner
walked(key) == remote_walk(owner(key.vid), key, Hash(key) % num_buckets, 0)

\* with the flag off no lookup is a hit and a remote call returns what the
\* walk of the owner's chain finds
flag_off_misses ==
    ~global_enable_caching =>
        /\ \A r \in Servers : \A key \in LookupKeys : ~cache_lookup(r, key).found
        /\ (ret.key \in LookupKeys /\ owner(ret.key.vid) # ret.sid) =>
               ret.size = walked(ret.key).v.ptr.size

\* a step changes a cache item only with the flag on, and only to a record the
\* walk of the owner's chain found
only_found_inserted ==
    /\ ~global_enable_caching => rdma_cache' = rdma_cache
    /\ \A r \in Servers : \A idx \in 0 .. (NUM_ITEMS - 1) :
           rdma_cache'[r][idx] # rdma_cache[r][idx] =>
               /\ rdma_cache'[r][idx].key # EmptyKey
               /\ walked(rdma_cache'[r][idx].key) =
                      [found |-> TRUE, v |-> rdma_cache'[r][idx]]

\* C22: with the caching flag off every lookup misses, every insert leaves
\* all items unchanged and every remote read walks the owner's bucket chain;
\* with the flag on only found records are inserted
C22_CachingFlag == [] flag_off_misses /\ [][only_found_inserted]_vars

\* a remote read has found a record with the flag off
C22_Witness ==
    /\ ~global_enable_caching
    /\ ret.key \in LookupKeys /\ owner(ret.key.vid) # ret.sid
    /\ ret.size > 0

----------------------------------------------------------------------------
(* Claims about the keys of insert_index                                   *)

\* the keys lines 549-551 materialize on server s, one sequence entry per
\* call of insert_key
index_keys(s) ==
    {<<"t", ikey_t(0, DIR_IN, t)>> : t \in DOMAIN tidx_map[s]} \cup
    {<<"i", ikey_t(0, DIR_IN, p)>> : p \in DOMAIN pidx_in_map[s]} \cup
    {<<"o", ikey_t(0, DIR_OUT, p)>> : p \in DOMAIN pidx_out_map[s]}

\* the index keys are pairwise distinct and none of them is in the table
index_keys_fresh ==
    \A s \in Servers :
        phase[s] = "loaded" =>
            /\ \A a, b \in index_keys(s) : a # b => a[2] # b[2]
            /\ \A a \in index_keys(s) : \A i \in Slots : vertices[s][i].key # a[2]

\* no server has ended insert_index (the scan is over) in the abort of
\* line 128
no_dup_abort ==
    \A s \in Servers :
        ~ /\ phase[s] = "aborted" /\ abort[s] = "dup"
          /\ \A t \in Threads : scan_pos[s][t] = ScanLen(t)

\* C26: insert_index on a table built by insert_normal from valid input
\* never hits the duplicate-key abort: the keys of the three indexes are
\* pairwise distinct and distinct from every key already in the table
C26_IndexKeysDistinct == index_keys_fresh /\ no_dup_abort

\* a server serves with a type index, a predicate-IN index and a
\* predicate-OUT index in its table
C26_Witness ==
    \E s \in Servers :
        /\ phase[s] = "serve"
        /\ \E t \in Tids : \E i \in Slots : vertices[s][i].key = ikey_t(0, DIR_IN, t)
        /\ \E p \in Pids : \E i \in Slots : vertices[s][i].key = ikey_t(0, DIR_IN, p)
        /\ \E p \in Pids : \E i \in Slots : vertices[s][i].key = ikey_t(0, DIR_OUT, p)

----------------------------------------------------------------------------
(* Claims about the slot indexes of insert_key                             *)

\* the slot a thread is about to read or write, or has just read at line 139
at_slot(t) == thr[t].pc \in {"scan", "put", "follow", "ext_lock", "ext", "move", "fill"}

\* past line 139 slot_id is one more than the last index of the for loop,
\* which is in the bucket the thread visits
past_chain(t) == thr[t].pc \in {"follow", "ext_lock", "ext", "move"}

\* every index insert_key uses is in the slot array
slot_in_array == \A t \in Threads : at_slot(t) => thr[t].slot < num_slots

\* C24: every slot index insert_key reads or writes is below num_slots and
\* belongs to the bucket being visited
C24_SlotIndexInBucket ==
    /\ slot_in_array
    /\ \A t \in Threads :
           past_chain(t) =>
               thr[t].slot \div ASSOCIATIVITY = (thr[t].slot - 1) \div ASSOCIATIVITY

----------------------------------------------------------------------------
(* Claims about the progress of the build                                  *)

\* the locks thread t holds
held(t) ==
    {<<"stripe", l>> : l \in {l \in 0 .. (NUM_LOCKS - 1) : bucket_locks[l] = t}} \cup
    (IF bucket_ext_lock = t THEN {<<"ext", 0>>} ELSE {}) \cup
    (IF entry_lock = t THEN {<<"entry", 0>>} ELSE {})

\* a thread asks for its stripe lock holding nothing, asks for the overflow
\* allocator's lock holding its stripe lock only, and holds the allocator's
\* lock over lines 147-149 only
lock_order ==
    \A t \in Threads :
        /\ thr[t].pc = "lock" => held(t) = {}
        /\ thr[t].pc = "ext_lock" => held(t) = {<<"stripe", lock_of(thr[t].key)>>}
        /\ bucket_ext_lock = t => thr[t].pc = "ext"
        /\ thr[t].pc \in {"idle", "check"} => held(t) = {}

\* a call of insert_key returns or the process aborts
insert_ends ==
    \A t \in Threads :
        (thr[t].pc # "idle") ~> (thr[t].pc = "idle" \/ phase[0] = "aborted")

\* C25: under fair scheduling every insert_key call releases its stripe lock
\* and returns or aborts; the locks are taken in the order stripe lock, then
\* overflow-allocator lock, and the insert loop does not cycle forever
C25_BuildTerminates == [] lock_order /\ insert_ends

\* C21: with caching enabled, under every interleaving of lookups and
\* inserts, a lookup of K that reports a hit returns a whole record whose key
\* is K, the one the owner's table stores for K
C21_CacheHitIsOwnersRecord ==
    \A t \in Threads :
        thr[t].pc = "hit" =>
            /\ thr[t].v.key = thr[t].key
            /\ walked(thr[t].key) = [found |-> TRUE, v |-> thr[t].v]

\* a lookup is a hit for a key while the other thread holds the item of the
\* same index to store the record of another key
C21_Witness ==
    \E t, u \in Threads :
        /\ thr[t].pc = "hit"
        /\ thr[u].pc \in {"i_key", "i_ptr"}
        /\ item_of(thr[u].v.key) = item_of(thr[t].key)
        /\ thr[u].v.key # thr[t].key

====
